---- MODULE Spec2Model ----
\* Model of the DataManager class of src/app.py: a hybrid persistence layer
\* that talks either to a local SQLite file or to a remote Firestore database,
\* chosen once at construction.
EXTENDS Integers, Sequences, FiniteSets, TLC

VARIABLES constructed, use_firestore, connection_error,
          users, food_logs, body_stats, templates,
          fs_users, fs_food_logs, fs_body_stats, fs_templates, fs_used,
          next_uuid, ops, last

vars == <<constructed, use_firestore, connection_error,
          users, food_logs, body_stats, templates,
          fs_users, fs_food_logs, fs_body_stats, fs_templates, fs_used,
          next_uuid, ops, last>>

sqlite_vars == <<users, food_logs, body_stats, templates>>
firestore_vars == <<fs_users, fs_food_logs, fs_body_stats, fs_templates, fs_used>>
config_vars == <<constructed, use_firestore, connection_error>>

\* ---------------------------------------------------------------- bounds
MaxOps == 2
MaxDate == 2
MaxAmount == 1

Dates == 1..MaxDate
Amounts == 1..MaxAmount

\* Automatic Firestore document ids: random strings, here drawn in any order
\* from a pool with one id per call that can create a document.
DocIds == 1..MaxOps

\* ---------------------------------------------------------------- inputs
\* The dictionary built by the "Log Meal" and "Analyze & Log Photo" callers:
\* every column key is present.
CompleteFood(d, c) == [date |-> d, calories |-> c, fats |-> c]

\* The dictionary passed by the "Recent" quick-add caller: the analysis
\* result as returned (key total_fats, no key fats) plus a date.
RawFood(d, c) == [date |-> d, calories |-> c, total_fats |-> c]

FoodInputs == {CompleteFood(d, c) : d \in Dates, c \in Amounts}
              \cup {RawFood(d, MaxAmount) : d \in Dates}

ProfileInputs == [weight_kg : Amounts, target_calories : {MaxAmount, MaxAmount + 1}]

BodyInputs == [date : Dates, weight_kg : {MaxAmount}]

TemplateInputs == [name : {1}, calories : Amounts]

\* What a caller passes as an identifier: the integer id of a SQLite row,
\* the string id of a Firestore document, or a uid string.
IntId(n) == [kind |-> "int", v |-> n]
DocId(n) == [kind |-> "doc", v |-> n]
UidId(n) == [kind |-> "uid", v |-> n]

IdInputs == {IntId(n) : n \in 1..MaxOps} \cup {DocId(n) : n \in DocIds}
            \cup {UidId(n) : n \in 1..MaxOps}

\* ---------------------------------------------------------------- helpers
RECURSIVE SeqMax(_)
SeqMax(s) == IF s = <<>> THEN 0
             ELSE LET m == SeqMax(Tail(s)) IN IF Head(s).id > m THEN Head(s).id ELSE m

\* INTEGER PRIMARY KEY without AUTOINCREMENT: the new rowid is one more than
\* the largest rowid currently in the table.
NextRowId(table) == SeqMax(table) + 1

Min(S) == CHOOSE x \in S : \A y \in S : x <= y

RECURSIVE SortedSeq(_)
SortedSeq(S) == IF S = {} THEN <<>> ELSE <<Min(S)>> \o SortedSeq(S \ {Min(S)})

\* A Firestore collection is a function from document ids to documents.
EmptyCollection == [d \in {} |-> 0]
WithDoc(coll, id, doc) == [d \in DOMAIN coll \cup {id} |-> IF d = id THEN doc ELSE coll[d]]
WithoutDoc(coll, id) == [d \in DOMAIN coll \ {id} |-> coll[d]]

\* Documents of a collection as stream() yields them, in document id order.
Stream(coll) == SortedSeq(DOMAIN coll)

\* The local schema has the tables users, food_logs, body_stats and
\* templates. There is no outbox table and no method enqueues a mutation
\* record, so the queue of pending mutations is empty in every state.
outbox == <<>>

pending_count == Len(SelectSeq(outbox, LAMBDA r : ~r.synced))

\* The call made last: its method, how it ended, its argument (for a write
\* the entity as written, uid included) and the value it returned.
Call(op, outcome, entity, ret) == [op |-> op, outcome |-> outcome, entity |-> entity, ret |-> ret]

\* How a call ends: it returns, the process dies inside it (before or after
\* the write was committed), or the Firestore call raises.
Hows == {"return", "crash_before_commit", "crash_after_commit", "remote_error"}

\* Every SQLite handler runs one statement and then conn.commit(); every
\* Firestore handler other than delete_day_logs makes one remote call. The
\* store holds the new contents once that commit (or call) has happened.
Persisted(pre, post, how) ==
    IF how \in {"return", "crash_after_commit"} THEN post ELSE pre

\* No handler catches anything: a raised error reaches the caller.
Outcome(how) ==
    CASE how = "return" -> "ok"
      [] how = "remote_error" -> "RemoteError"
      [] OTHER -> "crash"

\* ---------------------------------------------------------------- construction
\* The secrets the deployment provides: a secrets file with the section
\* gcp_service_account, a secrets file without it, or no secrets file.
SecretsStates == {"section", "no_section", "no_file"}

\* Reading st.secrets without a secrets file raises FileNotFoundError (the
\* module guards its first use of st.secrets against exactly that); the
\* membership test of __init__ is evaluated only when the library imported,
\* and it stands outside the try block.
SecretsLookupRaises(has_lib, secrets) == has_lib /\ secrets = "no_file"

\* DataManager.__init__: Firestore is used only when the library imported,
\* the secrets section exists and building the client did not raise. dm
\* exists only when __init__ returned.
InitConfig(has_lib, secrets, client_raises) ==
    /\ constructed = ~SecretsLookupRaises(has_lib, secrets)
    /\ use_firestore = (has_lib /\ secrets = "section" /\ ~client_raises)
    /\ connection_error = (has_lib /\ secrets = "section" /\ client_raises)

Init ==
    /\ \E has_lib \in BOOLEAN, secrets \in SecretsStates, client_raises \in BOOLEAN :
          InitConfig(has_lib, secrets, client_raises)
    /\ users = <<>>
    /\ food_logs = <<>>
    /\ body_stats = <<>>
    /\ templates = <<>>
    /\ fs_users = <<>>
    /\ fs_food_logs = EmptyCollection
    /\ fs_body_stats = EmptyCollection
    /\ fs_templates = EmptyCollection
    /\ fs_used = {}
    /\ next_uuid = 1
    /\ ops = 0
    /\ last = Call("init", IF constructed THEN "ok" ELSE "FileNotFoundError", <<>>, <<>>)

\* Variant: the SQLite branch calls Firestore as well.
Mutation_RemoteInAnyMode(how) ==
    /\ constructed
    /\ UNCHANGED <<config_vars, ops>>

\* A mutating call; remote errors exist only with Firestore.
Mutation(how) ==
    /\ constructed
    /\ (how = "remote_error") => use_firestore
    /\ UNCHANGED <<config_vars, ops>>

\* A call that creates an entity (and draws a uuid or a document id): the
\* number of these calls is bounded.
Creation(how) ==
    /\ constructed
    /\ ops < MaxOps
    /\ ops' = ops + 1
    /\ (how = "remote_error") => use_firestore
    /\ UNCHANGED config_vars

\* ---------------------------------------------------------------- profile
\* Variant: the UPDATE statement misses the target columns.
SqliteUpdateProfile_PartialUpdate(table, data) ==
    IF \E i \in 1..Len(table) : table[i].id = 1
    THEN [i \in 1..Len(table) |->
             IF table[i].id = 1 THEN [table[i] EXCEPT !.weight_kg = data.weight_kg] ELSE table[i]]
    ELSE Append(table, [id |-> 1, weight_kg |-> data.weight_kg,
                        target_calories |-> data.target_calories])

\* Variant: every call inserts a new row.
SqliteUpdateProfile_AlwaysInsert(table, data) ==
    Append(table, [id |-> NextRowId(table), weight_kg |-> data.weight_kg,
                   target_calories |-> data.target_calories])

\* SQLite branch of update_user_profile: UPDATE the row with id 1 when it
\* exists, INSERT it otherwise.
SqliteUpdateProfile(table, data) ==
    LET row == [id |-> 1, weight_kg |-> data.weight_kg, target_calories |-> data.target_calories]
    IN IF \E i \in 1..Len(table) : table[i].id = 1
       THEN [i \in 1..Len(table) |-> IF table[i].id = 1 THEN row ELSE table[i]]
       ELSE Append(table, row)

\* Variant: the document is created when missing and kept when present.
FirestoreUpdateProfile_CreateOnly(doc, data) == IF doc = <<>> THEN <<data>> ELSE doc

\* Firestore branch: document('profile').set(data) replaces the document.
FirestoreUpdateProfile(doc, data) == <<data>>

update_user_profile(data, how) ==
    /\ Mutation(how)
    /\ IF use_firestore
       THEN /\ fs_users' = Persisted(fs_users, FirestoreUpdateProfile(fs_users, data), how)
            /\ UNCHANGED users
       ELSE /\ users' = Persisted(users, SqliteUpdateProfile(users, data), how)
            /\ UNCHANGED fs_users
    /\ last' = Call("update_user_profile", Outcome(how), <<data>>, <<>>)
    /\ UNCHANGED <<food_logs, body_stats, templates,
                   fs_food_logs, fs_body_stats, fs_templates, fs_used, next_uuid>>

\* get_user_profile: the row with id 1 / the document 'profile', or None.
SqliteGetProfile(table) == SelectSeq(table, LAMBDA r : r.id = 1)

FirestoreGetProfile(doc) == doc

\* A read: Firestore reads can raise, SQLite reads cannot.
Read(op, arg, fails, sqlite_ret, firestore_ret) ==
    /\ constructed
    /\ fails => use_firestore
    /\ last' = IF fails THEN Call(op, "RemoteError", arg, <<>>)
               ELSE Call(op, "ok", arg, IF use_firestore THEN firestore_ret ELSE sqlite_ret)
    /\ UNCHANGED <<config_vars, sqlite_vars, firestore_vars, next_uuid, ops>>

get_user_profile(fails) ==
    Read("get_user_profile", <<>>, fails, SqliteGetProfile(users), FirestoreGetProfile(fs_users))

\* ---------------------------------------------------------------- food logs
\* data['uid'] = unique_id
WithUid(data, uid) ==
    [k \in DOMAIN data \cup {"uid"} |-> IF k = "uid" THEN uid ELSE data[k]]

\* The column keys the INSERT of add_food_log reads from the dictionary.
FoodColumns == {"date", "calories", "fats"}

\* Variant: the INSERT leaves the uid column out (as the body_stats INSERT does).
SqliteAddFoodLog_NoUid(table, data, uid) ==
    Append(table, [id |-> NextRowId(table), date |-> data.date,
                   calories |-> data.calories, fats |-> data.fats, uid |-> 0])

\* SQLite branch of add_food_log: one row with the column values and the uid.
SqliteAddFoodLog(table, data, uid) ==
    Append(table, [id |-> NextRowId(table), date |-> data.date,
                   calories |-> data.calories, fats |-> data.fats, uid |-> uid])

\* Variant: the uid is generated once, not per call.
FirestoreAddFoodLog_FixedUid(coll, docid, data, uid) == WithDoc(coll, docid, WithUid(data, 1))

\* Firestore branch: collection('food_logs').add(data) stores the whole
\* dictionary under an automatic document id.
FirestoreAddFoodLog(coll, docid, data, uid) == WithDoc(coll, docid, WithUid(data, uid))

add_food_log(data, how, docid) ==
    /\ Creation(how)
    /\ next_uuid' = next_uuid + 1
    /\ IF use_firestore
       THEN /\ docid \notin fs_used
            /\ fs_used' = fs_used \cup {docid}
            /\ fs_food_logs' = Persisted(fs_food_logs,
                                  FirestoreAddFoodLog(fs_food_logs, docid, data, next_uuid), how)
            /\ last' = Call("add_food_log", Outcome(how), <<WithUid(data, next_uuid)>>, <<>>)
            /\ UNCHANGED food_logs
       ELSE /\ docid = 1
            /\ IF FoodColumns \subseteq DOMAIN data
               THEN /\ food_logs' = Persisted(food_logs,
                                       SqliteAddFoodLog(food_logs, data, next_uuid), how)
                    /\ last' = Call("add_food_log", Outcome(how), <<WithUid(data, next_uuid)>>, <<>>)
               ELSE /\ how = "return"
                    /\ UNCHANGED food_logs
                    /\ last' = Call("add_food_log", "KeyError", <<WithUid(data, next_uuid)>>, <<>>)
            /\ UNCHANGED <<fs_food_logs, fs_used>>
    /\ UNCHANGED <<users, body_stats, templates, fs_users, fs_body_stats, fs_templates>>

\* Variant: one statement deletes the rows whose id or whose uid equals the
\* identifier, whatever its type.
SqliteDeleteById_IdOrUid(table, log_id) ==
    SelectSeq(table, LAMBDA r : r.id # log_id.v /\ r.uid # log_id.v)

\* SQLite branch of delete_food_log / delete_template: int(log_id) succeeds
\* for an integer and the row with that id goes; for any other string it
\* raises, and the except branch deletes by uid.
SqliteDeleteById(table, log_id) ==
    IF log_id.kind = "int"
    THEN SelectSeq(table, LAMBDA r : r.id # log_id.v)
    ELSE IF log_id.kind = "uid"
         THEN SelectSeq(table, LAMBDA r : r.uid # log_id.v)
         ELSE table

\* Variant: the document is looked up by its uid field.
FirestoreDeleteById_ByUid(coll, log_id) ==
    IF log_id.kind = "uid"
    THEN [d \in {x \in DOMAIN coll : coll[x].uid # log_id.v} |-> coll[d]]
    ELSE coll

\* Firestore branch: document(log_id).delete(); deleting a document that
\* does not exist succeeds.
FirestoreDeleteById(coll, log_id) ==
    IF log_id.kind = "doc" THEN WithoutDoc(coll, log_id.v) ELSE coll

\* The identifiers the callers pass: log['id'] of the active backend, or a uid.
IdFits(log_id) ==
    /\ (log_id.kind = "int") => ~use_firestore
    /\ (log_id.kind = "doc") => use_firestore

delete_food_log(log_id, how) ==
    /\ Mutation(how)
    /\ IdFits(log_id)
    /\ IF use_firestore
       THEN /\ fs_food_logs' = Persisted(fs_food_logs, FirestoreDeleteById(fs_food_logs, log_id), how)
            /\ UNCHANGED food_logs
       ELSE /\ food_logs' = Persisted(food_logs, SqliteDeleteById(food_logs, log_id), how)
            /\ UNCHANGED fs_food_logs
    /\ last' = Call("delete_food_log", Outcome(how), <<log_id>>, <<>>)
    /\ UNCHANGED <<users, body_stats, templates, fs_users, fs_body_stats, fs_templates,
                   fs_used, next_uuid>>

\* Variant: the statement compares with >= (as the history query does).
SqliteDeleteDay_DateOrLater(table, date_str) == SelectSeq(table, LAMBDA r : r.date < date_str)

\* SQLite branch of delete_day_logs: DELETE FROM food_logs WHERE date=?
SqliteDeleteDay(table, date_str) == SelectSeq(table, LAMBDA r : r.date # date_str)

\* The documents the where('date', '==', date_str) query streams.
DayDocs(coll, date_str) == SelectSeq(Stream(coll), LAMBDA d : coll[d].date = date_str)

\* Firestore branch: the streamed documents are deleted one by one; k of
\* them are gone when the loop ends or is cut short.
FirestoreDeleteDay(coll, date_str, k) ==
    LET gone == {DayDocs(coll, date_str)[i] : i \in 1..k}
    IN [d \in DOMAIN coll \ gone |-> coll[d]]

delete_day_logs(date_str, how, k) ==
    /\ Mutation(how)
    /\ IF use_firestore
       THEN LET n == Len(DayDocs(fs_food_logs, date_str))
            IN /\ k <= n
               /\ (how = "return") => k = n
               /\ (how = "remote_error") => (k < n \/ n = 0)
               /\ fs_food_logs' = FirestoreDeleteDay(fs_food_logs, date_str, k)
               /\ UNCHANGED food_logs
       ELSE /\ k = 0
            /\ food_logs' = Persisted(food_logs, SqliteDeleteDay(food_logs, date_str), how)
            /\ UNCHANGED fs_food_logs
    /\ last' = Call("delete_day_logs", Outcome(how), <<date_str>>, <<>>)
    /\ UNCHANGED <<users, body_stats, templates, fs_users, fs_body_stats, fs_templates,
                   fs_used, next_uuid>>

\* The defaults get_logs_for_date fills in for keys a document lacks.
DefaultKeys == {"calories", "fats"}

\* Variant: the defaults are assigned unconditionally.
WithIdAndDefaults_Overwrite(doc, docid) ==
    [k \in DOMAIN doc \cup DefaultKeys \cup {"id"} |->
        IF k = "id" THEN DocId(docid) ELSE IF k \in DefaultKeys THEN 0 ELSE doc[k]]

WithIdAndDefaults(doc, docid) ==
    [k \in DOMAIN doc \cup DefaultKeys \cup {"id"} |->
        IF k = "id" THEN DocId(docid) ELSE IF k \in DOMAIN doc THEN doc[k] ELSE 0]

SqliteLogsForDate(table, date_str) == SelectSeq(table, LAMBDA r : r.date = date_str)

FirestoreLogsForDate(coll, date_str) ==
    LET ids == DayDocs(coll, date_str)
    IN [i \in 1..Len(ids) |-> WithIdAndDefaults(coll[ids[i]], ids[i])]

get_logs_for_date(date_str, fails) ==
    Read("get_logs_for_date", <<date_str>>, fails, SqliteLogsForDate(food_logs, date_str),
         FirestoreLogsForDate(fs_food_logs, date_str))

RECURSIVE Reverse(_)
Reverse(s) == IF s = <<>> THEN <<>> ELSE Append(Reverse(Tail(s)), Head(s))

\* SELECT ... WHERE date >= start ORDER BY id DESC
SqliteLogsHistory(table, start) == Reverse(SelectSeq(table, LAMBDA r : r.date >= start))

\* where('date', '>=', start): ordered by the date field, then by document id.
FirestoreLogsHistory(coll, start) ==
    LET ByDate(d) == SelectSeq(Stream(coll), LAMBDA x : coll[x].date = d)
        F[d \in 0..MaxDate] ==
            IF d = 0 THEN <<>>
            ELSE F[d - 1] \o (IF d >= start THEN [i \in 1..Len(ByDate(d)) |-> coll[ByDate(d)[i]]]
                              ELSE <<>>)
    IN F[MaxDate]

get_logs_history(start, fails) ==
    Read("get_logs_history", <<start>>, fails, SqliteLogsHistory(food_logs, start),
         FirestoreLogsHistory(fs_food_logs, start))

\* ---------------------------------------------------------------- body stats
\* Variant: a weigh-in of a date already stored replaces that row.
SqliteAddBodyStat_UpsertByDate(table, data) ==
    IF \E i \in 1..Len(table) : table[i].date = data.date
    THEN [i \in 1..Len(table) |->
             IF table[i].date = data.date
             THEN [table[i] EXCEPT !.weight_kg = data.weight_kg] ELSE table[i]]
    ELSE Append(table, [id |-> NextRowId(table), date |-> data.date, weight_kg |-> data.weight_kg])

\* SQLite branch of add_body_stat: the table has no uid column.
SqliteAddBodyStat(table, data) ==
    Append(table, [id |-> NextRowId(table), date |-> data.date, weight_kg |-> data.weight_kg])

\* Firestore branch: collection('body_stats').add(data)
FirestoreAddBodyStat(coll, docid, data) == WithDoc(coll, docid, data)

add_body_stat(data, how, docid) ==
    /\ Creation(how)
    /\ IF use_firestore
       THEN /\ docid \notin fs_used
            /\ fs_used' = fs_used \cup {docid}
            /\ fs_body_stats' = Persisted(fs_body_stats,
                                   FirestoreAddBodyStat(fs_body_stats, docid, data), how)
            /\ UNCHANGED body_stats
       ELSE /\ docid = 1
            /\ body_stats' = Persisted(body_stats, SqliteAddBodyStat(body_stats, data), how)
            /\ UNCHANGED <<fs_body_stats, fs_used>>
    /\ last' = Call("add_body_stat", Outcome(how), <<data>>, <<>>)
    /\ UNCHANGED <<users, food_logs, templates, fs_users, fs_food_logs, fs_templates, next_uuid>>

\* Insertion of one row into a list kept in ascending date order, after the
\* rows of the same date (a stable sort).
RECURSIVE InsertByDate(_, _)
InsertByDate(s, r) ==
    IF s = <<>> THEN <<r>>
    ELSE IF r.date < Head(s).date THEN <<r>> \o s
         ELSE <<Head(s)>> \o InsertByDate(Tail(s), r)

RECURSIVE SortByDate(_)
SortByDate(s) == IF s = <<>> THEN <<>> ELSE InsertByDate(SortByDate(SubSeq(s, 1, Len(s) - 1)), s[Len(s)])

\* SELECT * FROM body_stats ORDER BY date
SqliteBodyStatsHistory(table) == SortByDate(table)

\* collection('body_stats').stream(): document id order.
FirestoreBodyStatsHistory(coll) == [i \in 1..Len(Stream(coll)) |-> coll[Stream(coll)[i]]]

get_body_stats_history(fails) ==
    Read("get_body_stats_history", <<>>, fails, SqliteBodyStatsHistory(body_stats),
         FirestoreBodyStatsHistory(fs_body_stats))

\* ---------------------------------------------------------------- templates
\* The record add_template stores: total_calories is food_data.get('calories', 0).
TemplateRecord(data, uid) == [name |-> data.name, total_calories |-> data.calories, uid |-> uid]

\* Variant: the INSERT leaves the uid column out.
SqliteAddTemplate_NoUid(table, data, uid) ==
    Append(table, [id |-> NextRowId(table), name |-> data.name,
                   total_calories |-> data.calories, uid |-> 0])

SqliteAddTemplate(table, data, uid) ==
    Append(table, [id |-> NextRowId(table), name |-> data.name,
                   total_calories |-> data.calories, uid |-> uid])

FirestoreAddTemplate(coll, docid, data, uid) == WithDoc(coll, docid, TemplateRecord(data, uid))

add_template(data, how, docid) ==
    /\ Creation(how)
    /\ next_uuid' = next_uuid + 1
    /\ IF use_firestore
       THEN /\ docid \notin fs_used
            /\ fs_used' = fs_used \cup {docid}
            /\ fs_templates' = Persisted(fs_templates,
                                  FirestoreAddTemplate(fs_templates, docid, data, next_uuid), how)
            /\ UNCHANGED templates
       ELSE /\ docid = 1
            /\ templates' = Persisted(templates, SqliteAddTemplate(templates, data, next_uuid), how)
            /\ UNCHANGED <<fs_templates, fs_used>>
    /\ last' = Call("add_template", Outcome(how), <<TemplateRecord(data, next_uuid)>>, <<>>)
    /\ UNCHANGED <<users, food_logs, body_stats, fs_users, fs_food_logs, fs_body_stats>>

delete_template(t_id, how) ==
    /\ Mutation(how)
    /\ IdFits(t_id)
    /\ IF use_firestore
       THEN /\ fs_templates' = Persisted(fs_templates, FirestoreDeleteById(fs_templates, t_id), how)
            /\ UNCHANGED templates
       ELSE /\ templates' = Persisted(templates, SqliteDeleteById(templates, t_id), how)
            /\ UNCHANGED fs_templates
    /\ last' = Call("delete_template", Outcome(how), <<t_id>>, <<>>)
    /\ UNCHANGED <<users, food_logs, body_stats, fs_users, fs_food_logs, fs_body_stats,
                   fs_used, next_uuid>>

\* d['id'] = doc.id
WithId(doc, docid) ==
    [k \in DOMAIN doc \cup {"id"} |-> IF k = "id" THEN DocId(docid) ELSE doc[k]]

SqliteGetTemplates(table) == table

FirestoreGetTemplates(coll) == [i \in 1..Len(Stream(coll)) |-> WithId(coll[Stream(coll)[i]], Stream(coll)[i])]

get_templates(fails) ==
    Read("get_templates", <<>>, fails, SqliteGetTemplates(templates), FirestoreGetTemplates(fs_templates))

\* One mutating call of a DataManager method, ending in one of the ways of H.
Write(H) ==
    \/ \E data \in ProfileInputs, how \in H : update_user_profile(data, how)
    \/ \E data \in FoodInputs, how \in H, docid \in DocIds : add_food_log(data, how, docid)
    \/ \E log_id \in IdInputs, how \in H : delete_food_log(log_id, how)
    \/ \E d \in Dates, how \in H, k \in 0..MaxOps : delete_day_logs(d, how, k)
    \/ \E data \in BodyInputs, how \in H, docid \in DocIds : add_body_stat(data, how, docid)
    \/ \E data \in TemplateInputs, how \in H, docid \in DocIds : add_template(data, how, docid)
    \/ \E t_id \in IdInputs, how \in H : delete_template(t_id, how)

\* One reading call.
Query ==
    \/ \E fails \in BOOLEAN : get_user_profile(fails)
    \/ \E d \in Dates, fails \in BOOLEAN : get_logs_for_date(d, fails)
    \/ \E d \in Dates, fails \in BOOLEAN : get_logs_history(d, fails)
    \/ \E fails \in BOOLEAN : get_body_stats_history(fails)
    \/ \E fails \in BOOLEAN : get_templates(fails)

\* The running process: calls return or raise.
Next == Write({"return", "remote_error"}) \/ Query

Spec == Init /\ [][Next]_vars

\* The stores across process deaths: a mutating call returns, or the process
\* dies inside it and is started again.
NextCrash == Write({"return", "crash_before_commit", "crash_after_commit"})

SpecCrash == Init /\ [][NextCrash]_vars

\* ================================================================ properties
Range(s) == {s[i] : i \in 1..Len(s)}

Docs(coll) == {coll[d] : d \in DOMAIN coll}

\* The stored records of each kind, in whichever store is active.
StoredFoodLogs == IF use_firestore THEN Docs(fs_food_logs) ELSE Range(food_logs)
StoredTemplates == IF use_firestore THEN Docs(fs_templates) ELSE Range(templates)
StoredBodyStats == IF use_firestore THEN Docs(fs_body_stats) ELSE Range(body_stats)
StoredProfile == IF use_firestore THEN Range(fs_users) ELSE Range(users)

FoodLogCount == IF use_firestore THEN Cardinality(DOMAIN fs_food_logs) ELSE Len(food_logs)
TemplateCount == IF use_firestore THEN Cardinality(DOMAIN fs_templates) ELSE Len(templates)

\* Record r carries every field of entity e with the same value.
Carries(r, e) == \A k \in DOMAIN e : k \in DOMAIN r /\ r[k] = e[k]

MutationOps == {"add_food_log", "delete_food_log", "update_user_profile",
                "add_body_stat", "add_template", "delete_template"}

\* The step is a call of a facade mutation that returned normally.
SuccessfulWrite == last'.op \in MutationOps /\ last'.outcome = "ok"

Addressed(r, log_id) ==
    \/ log_id.kind = "int" /\ r.id = log_id.v
    \/ log_id.kind = "uid" /\ r.uid = log_id.v

\* The entity write of the call of this step has happened completely in the
\* local store.
WriteComplete ==
    CASE last'.op = "update_user_profile" ->
            /\ Len(users') = 1
            /\ Carries(users'[1], last'.entity[1])
      [] last'.op = "add_food_log" ->
            /\ Len(food_logs') = Len(food_logs) + 1
            /\ SubSeq(food_logs', 1, Len(food_logs)) = food_logs
            /\ Carries(food_logs'[Len(food_logs')], last'.entity[1])
      [] last'.op = "add_body_stat" ->
            /\ Len(body_stats') = Len(body_stats) + 1
            /\ SubSeq(body_stats', 1, Len(body_stats)) = body_stats
            /\ Carries(body_stats'[Len(body_stats')], last'.entity[1])
      [] last'.op = "add_template" ->
            /\ Len(templates') = Len(templates) + 1
            /\ SubSeq(templates', 1, Len(templates)) = templates
            /\ Carries(templates'[Len(templates')], last'.entity[1])
      [] last'.op = "delete_day_logs" ->
            Range(food_logs') = {r \in Range(food_logs) : r.date # last'.entity[1]}
      [] last'.op = "delete_food_log" ->
            Range(food_logs') = {r \in Range(food_logs) : ~Addressed(r, last'.entity[1])}
      [] last'.op = "delete_template" ->
            Range(templates') = {r \in Range(templates) : ~Addressed(r, last'.entity[1])}
      [] OTHER -> FALSE

ReadAfterWrite(write_op, read_op) ==
    /\ last.op = write_op /\ last.outcome = "ok"
    /\ last'.op = read_op /\ last'.outcome = "ok"

\* C3 (write durability): a read issued right after a successful write
\* returns the written entity with every field unchanged: add_log is read
\* back by read_logs of its date and by read_logs_since of any earlier or
\* equal date, update_profile by read_profile, add_body_stat by
\* read_body_stats and save_template by read_templates.
C3_WriteDurability ==
    [][/\ (ReadAfterWrite("add_food_log", "get_logs_for_date")
             /\ last'.entity[1] = last.entity[1].date)
          => \E r \in Range(last'.ret) : Carries(r, last.entity[1])
       /\ (ReadAfterWrite("add_food_log", "get_logs_history")
             /\ last'.entity[1] <= last.entity[1].date)
          => \E r \in Range(last'.ret) : Carries(r, last.entity[1])
       /\ ReadAfterWrite("update_user_profile", "get_user_profile")
          => /\ Len(last'.ret) = 1
             /\ Carries(last'.ret[1], last.entity[1])
       /\ ReadAfterWrite("add_body_stat", "get_body_stats_history")
          => \E r \in Range(last'.ret) : Carries(r, last.entity[1])
       /\ ReadAfterWrite("add_template", "get_templates")
          => \E r \in Range(last'.ret) : Carries(r, last.entity[1])]_vars

\* C3 witness: a read_logs call has just returned an entry written with a
\* key that the read fills in by default when it is missing (Firestore mode).
C3_Witness ==
    /\ use_firestore
    /\ last.op = "get_logs_for_date" /\ last.outcome = "ok"
    /\ \E r \in Range(last.ret) : r.fats = MaxAmount /\ r.date = last.entity[1]

\* C11 as stated: without a valid remote configuration the construction of
\* the data layer never crashes: dm exists, in local-only mode, and its reads
\* and writes can be called.
C11_ConstructionNeverCrashes ==
    (last.op = "init" /\ ~use_firestore) => (constructed /\ last.outcome = "ok")

\* Two update_profile calls in a row, both returned.
SecondProfileUpdate ==
    /\ last.op = "update_user_profile" /\ last.outcome = "ok"
    /\ last'.op = "update_user_profile" /\ last'.outcome = "ok"

Targets(table, coll, log_id) ==
    IF use_firestore
    THEN {coll[d].uid : d \in {x \in DOMAIN coll : log_id.kind = "doc" /\ x = log_id.v}}
    ELSE {r.uid : r \in {x \in Range(table) : Addressed(x, log_id)}}

\* The uids of the entries of one date.
DayTargets(date_str) == {r.uid : r \in {x \in StoredFoodLogs : x.date = date_str}}

\* Everything read_logs and read_logs_since return, for any date, from the
\* given contents of the active store.
LogReads(table, coll) ==
    UNION {Range(IF use_firestore THEN FirestoreLogsForDate(coll, d)
                 ELSE SqliteLogsForDate(table, d))
           \cup Range(IF use_firestore THEN FirestoreLogsHistory(coll, d)
                      ELSE SqliteLogsHistory(table, d)) : d \in Dates}

TemplateReads(table, coll) ==
    Range(IF use_firestore THEN FirestoreGetTemplates(coll) ELSE SqliteGetTemplates(table))

\* C13: once delete_log, delete_template or delete_logs_for_date has
\* returned, no read (read_logs, read_logs_since, read_templates) returns a
\* deleted entity.
C13_DeletedNotRead ==
    [][/\ (last'.op = "delete_food_log" /\ last'.outcome = "ok") =>
             \A u \in Targets(food_logs, fs_food_logs, last'.entity[1]) :
                \A r \in LogReads(food_logs', fs_food_logs') : r.uid # u
       /\ (last'.op = "delete_day_logs" /\ last'.outcome = "ok") =>
             \A u \in DayTargets(last'.entity[1]) :
                \A r \in LogReads(food_logs', fs_food_logs') : r.uid # u
       /\ (last'.op = "delete_template" /\ last'.outcome = "ok") =>
             \A u \in Targets(templates, fs_templates, last'.entity[1]) :
                \A r \in TemplateReads(templates', fs_templates') : r.uid # u]_vars

\* C13 witness: two entries were logged, delete_log of row 1 has returned,
\* and the local table holds row 2 only.
C13_Witness ==
    /\ ~use_firestore
    /\ last.op = "delete_food_log" /\ last.outcome = "ok" /\ last.entity[1] = IntId(1)
    /\ Len(food_logs) = 1 /\ food_logs[1].id = 2

KeyedByUid(coll) ==
    \A d \in DOMAIN coll : "uid" \in DOMAIN coll[d] /\ DocId(d) = UidId(coll[d].uid)

UidsDistinct(coll) ==
    \A d1, d2 \in DOMAIN coll : coll[d1].uid = coll[d2].uid => d1 = d2

C17_ProfileSingleton ==
    [][/\ Cardinality(StoredProfile') <= 1
       /\ Len(users') <= 1 /\ Len(fs_users') <= 1
       /\ \A r \in Range(users') : r.id = 1
       /\ (StoredProfile # {} => StoredProfile' # {})
       /\ (last'.op = "update_user_profile" /\ last'.outcome = "ok" => StoredProfile' # {})
       /\ (last'.op = "get_user_profile" /\ last'.outcome = "ok" =>
              /\ Len(last'.ret) <= 1
              /\ (last'.ret = <<>>) = (StoredProfile = {}))]_vars

\* C17 witness: with a profile stored, read_profile has returned the single
\* local row 1.
C17_Witness ==
    /\ ~use_firestore
    /\ last.op = "get_user_profile" /\ last.outcome = "ok"
    /\ Len(last.ret) = 1 /\ last.ret[1].id = 1 /\ Len(users) = 1

\* C19 as stated: read_body_stats returns the body-stat entries ordered by
\* date ascending, in every storage configuration.
C19_BodyStatsByDate ==
    (last.op = "get_body_stats_history" /\ last.outcome = "ok") =>
        \A i, j \in 1..Len(last.ret) : i < j => last.ret[i].date <= last.ret[j].date

\* The step is a delete_log or delete_template call that returned.
DeleteReturned ==
    /\ last'.op \in {"delete_food_log", "delete_template"}
    /\ last'.outcome = "ok"

DeletesAddressed(table, table_after, coll, coll_after, log_id) ==
    IF use_firestore
    THEN /\ table_after = table
         /\ DOMAIN coll_after = DOMAIN coll \ (IF log_id.kind = "doc" THEN {log_id.v} ELSE {})
         /\ \A d \in DOMAIN coll_after : coll_after[d] = coll[d]
    ELSE /\ coll_after = coll
         /\ table_after = SelectSeq(table, LAMBDA r : ~Addressed(r, log_id))
         /\ Len(table) - Len(table_after) <= 1

OtherDatesKept(date_str) ==
    /\ SelectSeq(food_logs', LAMBDA r : r.date # date_str)
          = SelectSeq(food_logs, LAMBDA r : r.date # date_str)
    /\ \A d \in DOMAIN fs_food_logs :
          fs_food_logs[d].date # date_str =>
             (d \in DOMAIN fs_food_logs' /\ fs_food_logs'[d] = fs_food_logs[d])
    /\ DOMAIN fs_food_logs' \subseteq DOMAIN fs_food_logs

\* C21: delete_logs_for_date(d), once it has returned, has removed every
\* food-log entry whose date is d; it leaves unchanged every food-log entry
\* of another date, the profile, all body-stat entries and all templates
\* (these also when the call fails part-way).
C21_DeleteDayFrame ==
    [][last'.op = "delete_day_logs" =>
          /\ OtherDatesKept(last'.entity[1])
          /\ UNCHANGED <<users, body_stats, templates, fs_users, fs_body_stats, fs_templates>>
          /\ (last'.outcome = "ok" =>
                 \A r \in StoredFoodLogs' : r.date # last'.entity[1])]_vars

\* C21 witness: in Firestore mode two document ids were drawn and no body
\* stat or template is stored; delete_logs_for_date(1) has returned and
\* exactly one entry, of date 2, is left.
C21_Witness ==
    /\ use_firestore
    /\ last.op = "delete_day_logs" /\ last.outcome = "ok" /\ last.entity[1] = 1
    /\ Cardinality(fs_used) = 2
    /\ DOMAIN fs_body_stats = {} /\ DOMAIN fs_templates = {}
    /\ Cardinality(DOMAIN fs_food_logs) = 1
    /\ \A d \in DOMAIN fs_food_logs : fs_food_logs[d].date = 2

BodyStatCount == IF use_firestore THEN Cardinality(DOMAIN fs_body_stats) ELSE Len(body_stats)

\* Every food-log entry stored after the step was stored before it with the
\* same values, or is the entry the add_log call of this step created.
FoodLogsUnaltered ==
    /\ \A r \in StoredFoodLogs' :
          \/ r \in StoredFoodLogs
          \/ /\ last'.op = "add_food_log" /\ last'.outcome = "ok"
             /\ Carries(r, last'.entity[1])
    /\ \A d \in DOMAIN fs_food_logs' \cap DOMAIN fs_food_logs :
          fs_food_logs'[d] = fs_food_logs[d]

\* Every body-stat entry stored before the step is still stored after it,
\* in its place and with its values; a new one comes only from add_body_stat,
\* one per returned call, with the values passed.
BodyStatsAppendOnly ==
    /\ Len(body_stats') >= Len(body_stats)
    /\ SubSeq(body_stats', 1, Len(body_stats)) = body_stats
    /\ \A d \in DOMAIN fs_body_stats :
          d \in DOMAIN fs_body_stats' /\ fs_body_stats'[d] = fs_body_stats[d]
    /\ IF last'.op = "add_body_stat" /\ last'.outcome = "ok"
       THEN /\ BodyStatCount' = BodyStatCount + 1
            /\ \A r \in StoredBodyStats' :
                  r \in StoredBodyStats \/ Carries(r, last'.entity[1])
       ELSE BodyStatCount' = BodyStatCount

\* C22: stored entries are never altered in place: over every step, each
\* food-log entry still present has the values it had (it changes only by
\* being deleted), and each body-stat entry stays present with its values
\* (body stats are append-only).
C22_NeverAlteredInPlace ==
    [][FoodLogsUnaltered /\ BodyStatsAppendOnly]_vars

\* C22 witness: weigh-ins of date 2 and then date 1 were added; the history
\* read has returned them ordered by date, and the table still holds them
\* as they were inserted.
C22_Witness ==
    /\ ~use_firestore
    /\ last.op = "get_body_stats_history" /\ last.outcome = "ok"
    /\ Len(last.ret) = 2 /\ last.ret[1].id = 2
    /\ Len(body_stats) = 2 /\ body_stats[1].id = 1 /\ body_stats[1].date = 2
    /\ body_stats[2].date = 1
====
